---- MODULE Spec2Model ----
(***************************************************************************)
(* Model of src/assets/nn.py: a websocket server that gives every          *)
(* connection its own Keras model and answers tagged text messages          *)
(* (exit / predict: / train: / anything else).                              *)
(*                                                                          *)
(* A message is a sequence of one-character strings, so that lower(),       *)
(* `in`, slicing and np.fromstring are computed character by character as   *)
(* the Python code computes them.                                           *)
(*                                                                          *)
(* A handler coroutine is suspended only in `await websocket.recv()` and    *)
(* `await websocket.send(...)`; each action below is the code that runs     *)
(* between two suspension points.                                           *)
(***************************************************************************)
EXTENDS Integers, Sequences, FiniteSets, TLC

(***************************************************************************)
(* Bounds of the model.                                                     *)
(***************************************************************************)
\* connection slots the server handles concurrently
NumSessions == 2
\* size of the abstract weight space of the Keras model
NumWeights == 2

Sessions == 1..NumSessions

(***************************************************************************)
(* String literals of nn.py.                                                *)
(***************************************************************************)
PREDICT_TAG == <<"p", "r", "e", "d", "i", "c", "t", ":">>
PREDICT_TAG_LEN == Len(PREDICT_TAG)
TRAIN_TAG == <<"t", "r", "a", "i", "n", ":">>
TRAIN_TAG_LEN == Len(TRAIN_TAG)
EXIT == <<"e", "x", "i", "t">>
GOODBYE == <<"G", "o", "o", "d", "b", "y", "e", "!">>
TRAIN_DONE == <<"T", "r", "a", "i", "n", " ", "d", "o", "n", "e">>
PREDICT_PREFIX == <<"p", "r", "e", "d", "i", "c", "t", ":">>
ECHO_PREFIX == <<"P", "r", "o", "c", "e", "s", "s", "e", "d", " ", "m", "e", "s", "s", "a", "g", "e", ":", " ", "'">>
ECHO_SUFFIX == <<"'">>
SEP == ","

\* input width of the network, Input(shape=(7,)) and reshape(1, 7)
INPUT_DIM == 7
\* output width of the network, Dense(units = 2) and reshape(1, 2)
OUTPUT_DIM == 2

(***************************************************************************)
(* str methods and operators used by the handler.                           *)
(***************************************************************************)
DIGITS == <<"0", "1", "2", "3", "4", "5", "6", "7", "8", "9">>
UPPER == <<"E", "X", "I", "T">>
LOWER == <<"e", "x", "i", "t">>

IsDigit(c) == \E i \in 1..Len(DIGITS) : DIGITS[i] = c

DigitValue(c) == (CHOOSE i \in 1..Len(DIGITS) : DIGITS[i] = c) - 1

\* str.lower() on one character (the upper-case letters of the alphabet used)
LowerChar(c) ==
    IF \E i \in 1..Len(UPPER) : UPPER[i] = c
    THEN LOWER[CHOOSE i \in 1..Len(UPPER) : UPPER[i] = c]
    ELSE c

\* message.lower()
Lower(m) == [i \in 1..Len(m) |-> LowerChar(m[i])]

\* `tag in message`: substring containment
Contains(tag, m) ==
    \E i \in 1..(Len(m) - Len(tag) + 1) : SubSeq(m, i, i + Len(tag) - 1) = tag

\* message[n:]
SliceFrom(m, n) == SubSeq(m, n + 1, Len(m))

\* parsed[a:b] on an array
SliceArr(a, lo, hi) ==
    LET h == IF hi < Len(a) THEN hi ELSE Len(a)
    IN  IF lo >= h THEN <<>> ELSE SubSeq(a, lo + 1, h)

RECURSIVE StrNat(_)
\* str(v) of a non-negative whole value: its decimal digits
StrNat(n) ==
    IF n < 10 THEN <<DIGITS[n + 1]>>
    ELSE StrNat(n \div 10) \o <<DIGITS[(n % 10) + 1]>>

RECURSIVE Join(_)
\* ','.join(parts)
Join(parts) ==
    IF Len(parts) = 0 THEN <<>>
    ELSE IF Len(parts) = 1 THEN parts[1]
    ELSE parts[1] \o <<SEP>> \o Join(Tail(parts))

(***************************************************************************)
(* np.fromstring(data, sep=','), text mode (numpy's array_from_text).       *)
(* It reads numbers separated by `sep` until the string ends (clean) or     *)
(* until something that is neither a number nor the separator is met        *)
(* (unmatched data).  The payloads of the model are made of digits, ','     *)
(* and other characters: a number is a maximal run of digits.               *)
(***************************************************************************)
RECURSIVE NumEnd(_, _)
\* index after the run of digits that starts at i
NumEnd(data, i) ==
    IF i <= Len(data) /\ IsDigit(data[i]) THEN NumEnd(data, i + 1) ELSE i

RECURSIVE NumValue(_, _, _)
\* value of the digits data[i..j-1]
NumValue(data, i, j) ==
    IF i >= j THEN 0
    ELSE NumValue(data, i, j - 1) * 10 + DigitValue(data[j - 1])

RECURSIVE ReadText(_, _, _)
\* the reading loop: next element, then skip the separator
ReadText(data, i, acc) ==
    LET j == NumEnd(data, i) IN
    IF j = i
    THEN \* nothing read: the end of the string, or unmatched data
         [vals |-> acc, clean |-> (i > Len(data))]
    ELSE LET acc2 == Append(acc, NumValue(data, i, j)) IN
         IF j > Len(data) THEN [vals |-> acc2, clean |-> TRUE]
         ELSE IF data[j] # SEP THEN [vals |-> acc2, clean |-> FALSE]
         ELSE ReadText(data, j + 1, acc2)

\* Unmatched data is a DeprecationWarning that returns what was read, or a
\* ValueError, according to the numpy build and its warning filters: strict
\* says which.
FromString(data, strict) ==
    LET r == ReadText(data, 1, <<>>) IN
    IF ~r.clean /\ strict THEN [ok |-> FALSE, vals |-> <<>>]
    ELSE [ok |-> TRUE, vals |-> r.vals]

\* a reshape that wants one element more
ReshapeOffByOne(arr, n) == [ok |-> (Len(arr) = n + 1), vals |-> arr]

\* arr.reshape(1, n): ValueError unless arr has n elements
Reshape(arr, n) == [ok |-> (Len(arr) = n), vals |-> arr]

(***************************************************************************)
(* The Keras model.  tf.keras is outside the repository: the weights are    *)
(* an abstract value in 0..NumWeights-1, model.predict is a deterministic   *)
(* function of the weights and the input row, model.fit(epochs=1) a         *)
(* deterministic function of the weights and the sample.                    *)
(***************************************************************************)
Weights == 0..(NumWeights - 1)
NoModel == -1

RECURSIVE SumSeq(_)
SumSeq(a) == IF Len(a) = 0 THEN 0 ELSE Head(a) + SumSeq(Tail(a))

\* the weights a fresh model may start with (random initializers)
create_and_compile_model == Weights

\* a model whose last layer has one unit more
ModelPredictExtraUnit(w, x) ==
    [k \in 1..(OUTPUT_DIM + 1) |-> (w * k + SumSeq(x)) % 10]

\* model.predict(input_array, verbose=False).flatten(): OUTPUT_DIM values
ModelPredict(w, x) ==
    [k \in 1..OUTPUT_DIM |-> (w * k + x[k] + SumSeq(x)) % 10]

\* model.fit(x, y, epochs=1): one step of the optimizer, which moves the
\* weights by an amount that depends on the sample
ModelFit(w, x, y) ==
    (w + 1 + ((SumSeq(x) + SumSeq(y)) % (NumWeights - 1))) % NumWeights

\* predict(model, data): the text of the result, or a ValueError
predict(w, data, strict) ==
    LET parsed == FromString(data, strict)
        input_array == Reshape(parsed.vals, INPUT_DIM)
    IN  IF ~parsed.ok \/ ~input_array.ok
        THEN [ok |-> FALSE, text |-> <<>>]
        ELSE LET result == ModelPredict(w, input_array.vals)
             IN  [ok |-> TRUE,
                  text |-> Join([k \in 1..Len(result) |-> StrNat(result[k])])]

\* train(model, data): the fitted weights, or a ValueError before model.fit
train(w, data, strict) ==
    LET parsed == FromString(data, strict)
        x == Reshape(SliceArr(parsed.vals, 0, INPUT_DIM), INPUT_DIM)
        y == Reshape(SliceArr(parsed.vals, INPUT_DIM, INPUT_DIM + OUTPUT_DIM),
                     OUTPUT_DIM)
    IN  IF ~parsed.ok \/ ~x.ok \/ ~y.ok
        THEN [ok |-> FALSE, model |-> w]
        ELSE [ok |-> TRUE, model |-> ModelFit(w, x.vals, y.vals)]

(***************************************************************************)
(* The body of the handler's loop between recv and send (lines 58-69).      *)
(* branch: which arm ran; fault: a ValueError left the arm; fitted: the     *)
(* number of model.fit calls made.                                          *)
(***************************************************************************)
\* the comparison without lower()
IsExitCaseSensitive(m) == m = EXIT

\* an exit test by containment
IsExitContained(m) == Contains(EXIT, Lower(m))

IsExit(m) == Lower(m) = EXIT

\* an echo of the lower-cased message
EchoLowered(m) == ECHO_PREFIX \o Lower(m) \o ECHO_SUFFIX

EchoResponse(m) == ECHO_PREFIX \o m \o ECHO_SUFFIX

PredictPayload(m) == SliceFrom(m, PREDICT_TAG_LEN)

\* the train payload cut at the length of the predict tag
TrainPayloadPredictLen(m) == SliceFrom(m, PREDICT_TAG_LEN)

TrainPayload(m) == SliceFrom(m, TRAIN_TAG_LEN)

\* a dispatch that tests the train tag before the predict tag
DispatchTrainFirst(w, m, strict) ==
    IF IsExit(m)
    THEN [branch |-> "exit", fault |-> FALSE, response |-> GOODBYE,
          model |-> w, fitted |-> 0]
    ELSE IF Contains(TRAIN_TAG, m)
    THEN LET r == train(w, TrainPayload(m), strict)
         IN  [branch |-> "train", fault |-> ~r.ok,
              response |-> IF r.ok THEN TRAIN_DONE ELSE <<>>,
              model |-> r.model, fitted |-> IF r.ok THEN 1 ELSE 0]
    ELSE IF Contains(PREDICT_TAG, m)
    THEN LET r == predict(w, PredictPayload(m), strict)
         IN  [branch |-> "predict", fault |-> ~r.ok,
              response |-> IF r.ok THEN PREDICT_PREFIX \o r.text ELSE <<>>,
              model |-> w, fitted |-> 0]
    ELSE [branch |-> "echo", fault |-> FALSE, response |-> EchoResponse(m),
          model |-> w, fitted |-> 0]

\* a dispatch whose predict arm also moves the weights
DispatchPredictMovesModel(w, m, strict) ==
    IF IsExit(m)
    THEN [branch |-> "exit", fault |-> FALSE, response |-> GOODBYE,
          model |-> w, fitted |-> 0]
    ELSE IF Contains(PREDICT_TAG, m)
    THEN LET r == predict(w, PredictPayload(m), strict)
         IN  [branch |-> "predict", fault |-> ~r.ok,
              response |-> IF r.ok THEN PREDICT_PREFIX \o r.text ELSE <<>>,
              model |-> (w + 1) % NumWeights, fitted |-> 0]
    ELSE IF Contains(TRAIN_TAG, m)
    THEN LET r == train(w, TrainPayload(m), strict)
         IN  [branch |-> "train", fault |-> ~r.ok,
              response |-> IF r.ok THEN TRAIN_DONE ELSE <<>>,
              model |-> r.model, fitted |-> IF r.ok THEN 1 ELSE 0]
    ELSE [branch |-> "echo", fault |-> FALSE, response |-> EchoResponse(m),
          model |-> w, fitted |-> 0]

Dispatch(w, m, strict) ==
    IF IsExit(m)
    THEN [branch |-> "exit", fault |-> FALSE, response |-> GOODBYE,
          model |-> w, fitted |-> 0]
    ELSE IF Contains(PREDICT_TAG, m)
    THEN LET r == predict(w, PredictPayload(m), strict)
         IN  [branch |-> "predict", fault |-> ~r.ok,
              response |-> IF r.ok THEN PREDICT_PREFIX \o r.text ELSE <<>>,
              model |-> w, fitted |-> 0]
    ELSE IF Contains(TRAIN_TAG, m)
    THEN LET r == train(w, TrainPayload(m), strict)
         IN  [branch |-> "train", fault |-> ~r.ok,
              response |-> IF r.ok THEN TRAIN_DONE ELSE <<>>,
              model |-> r.model, fitted |-> IF r.ok THEN 1 ELSE 0]
    ELSE [branch |-> "echo", fault |-> FALSE, response |-> EchoResponse(m),
          model |-> w, fitted |-> 0]

(***************************************************************************)
(* The messages clients send in the model.                                  *)
(***************************************************************************)
\* "1,2,...,n": n comma-separated one-digit numbers
Csv(n) == Join([i \in 1..n |-> <<DIGITS[(i % 10) + 1]>>])

\* "n,...,2,1"
CsvDown(n) == Join([i \in 1..n |-> <<DIGITS[((n + 1 - i) % 10) + 1]>>])

Messages ==
    { EXIT,
      <<"E", "X", "I", "T">>,
      <<"E", "x", "i", "t">>,
      <<"h", "i">>,
      <<" ", "e", "x", "i", "t">>,
      PREDICT_TAG \o Csv(INPUT_DIM),
      PREDICT_TAG \o CsvDown(INPUT_DIM),
      PREDICT_TAG \o Csv(INPUT_DIM - 1),
      PREDICT_TAG \o Csv(INPUT_DIM + 1),
      <<"x">> \o PREDICT_TAG \o Csv(INPUT_DIM),
      PREDICT_TAG \o Csv(INPUT_DIM) \o <<SEP, "x">>,
      PREDICT_TAG \o TRAIN_TAG \o Csv(INPUT_DIM + OUTPUT_DIM),
      TRAIN_TAG \o Csv(INPUT_DIM + OUTPUT_DIM),
      TRAIN_TAG \o Csv(INPUT_DIM + OUTPUT_DIM - 1),
      TRAIN_TAG \o Csv(INPUT_DIM + OUTPUT_DIM + 1),
      TRAIN_TAG \o CsvDown(INPUT_DIM + OUTPUT_DIM),
      <<"x", "y">> \o TRAIN_TAG \o Csv(INPUT_DIM + OUTPUT_DIM),
      <<"e", "x", "i", "t", " ", "n", "o", "w">>,
      <<"a", "'", "!", SEP, " ", "T">>,
      <<"0", SEP, "0", SEP, "0", SEP, "0", SEP>> \o Csv(INPUT_DIM) \o PREDICT_TAG,
      TRAIN_TAG \o <<"0", SEP>> \o Csv(INPUT_DIM) \o PREDICT_TAG,
      TRAIN_TAG \o Csv(INPUT_DIM + OUTPUT_DIM) \o PREDICT_TAG }

\* the messages the clients of the many-connection specification send
CoreMessages ==
    { EXIT,
      PREDICT_TAG \o Csv(INPUT_DIM),
      PREDICT_TAG \o Csv(INPUT_DIM - 1),
      TRAIN_TAG \o Csv(INPUT_DIM + OUTPUT_DIM) }

(***************************************************************************)
(* State.  A slot is one connection the server may be handling; a slot      *)
(* whose handler ended can be taken by a new connection.                    *)
(***************************************************************************)
VARIABLES
    strict,     \* whether np.fromstring raises on unmatched data
    pc,         \* per slot: "idle", "recv" (awaiting recv), "send" (awaiting
                \* send of line 72), "bye" (awaiting send of line 60), "closed"
    model,      \* per slot: the weights of the handler's local `model`
    message,    \* per slot: the handler's local `message`
    response,   \* per slot: the text last handed to websocket.send
    branch,     \* per slot: the arm of the dispatch that ran last
    owed,       \* per slot: messages received minus messages sent
    unacked,    \* per slot: model.fit calls minus "Train done" sent
    cleanups,   \* per slot: runs of the finally block
    outcome     \* per slot: how the handler ended: "none" (running), "exit"
                \* (returned after the break), "transport" (returned after
                \* catching ConnectionClosed), "fault" (a ValueError left it)

vars == <<strict, pc, model, message, response, branch, owed, unacked,
          cleanups, outcome>>

Init ==
    /\ strict \in BOOLEAN
    /\ pc = [s \in Sessions |-> "idle"]
    /\ model = [s \in Sessions |-> NoModel]
    /\ message = [s \in Sessions |-> <<>>]
    /\ response = [s \in Sessions |-> <<>>]
    /\ branch = [s \in Sessions |-> "none"]
    /\ owed = [s \in Sessions |-> 0]
    /\ unacked = [s \in Sessions |-> 0]
    /\ cleanups = [s \in Sessions |-> 0]
    /\ outcome = [s \in Sessions |-> "none"]

(***************************************************************************)
(* The handler, one action per stretch of code between suspension points.   *)
(***************************************************************************)
\* one model object shared by every handler
SetModelShared(s, w) == [t \in Sessions |-> w]

\* the models after slot s's local `model` becomes w
SetModel(s, w) == [model EXCEPT ![s] = w]

\* a handler whose cleanup follows the loop instead of being a finally
\* block: an exception that leaves the handler skips it
EndHandlerCleanupAfterLoop(s, how) ==
    /\ pc' = [pc EXCEPT ![s] = "closed"]
    /\ outcome' = [outcome EXCEPT ![s] = how]
    /\ cleanups' = [cleanups EXCEPT ![s] = IF how = "fault" THEN @ ELSE @ + 1]
    /\ model' = SetModel(s, NoModel)
    /\ message' = [message EXCEPT ![s] = <<>>]
    /\ response' = [response EXCEPT ![s] = <<>>]
    /\ branch' = [branch EXCEPT ![s] = "none"]

\* The handler of slot s ends: the finally block runs, then the handler
\* returns or the exception leaves it; its locals are released.
EndHandler(s, how) ==
    /\ pc' = [pc EXCEPT ![s] = "closed"]
    /\ outcome' = [outcome EXCEPT ![s] = how]
    /\ cleanups' = [cleanups EXCEPT ![s] = @ + 1]
    /\ model' = SetModel(s, NoModel)
    /\ message' = [message EXCEPT ![s] = <<>>]
    /\ response' = [response EXCEPT ![s] = <<>>]
    /\ branch' = [branch EXCEPT ![s] = "none"]

\* websockets.serve (main) accepts a connection and starts
\* handler(websocket): lines 49-51, up to the first `await websocket.recv()`.
Accept(s) ==
    /\ pc[s] \in {"idle", "closed"}
    /\ \E w \in create_and_compile_model : model' = SetModel(s, w)
    /\ pc' = [pc EXCEPT ![s] = "recv"]
    /\ message' = [message EXCEPT ![s] = <<>>]
    /\ response' = [response EXCEPT ![s] = <<>>]
    /\ branch' = [branch EXCEPT ![s] = "none"]
    /\ owed' = [owed EXCEPT ![s] = 0]
    /\ unacked' = [unacked EXCEPT ![s] = 0]
    /\ cleanups' = [cleanups EXCEPT ![s] = 0]
    /\ outcome' = [outcome EXCEPT ![s] = "none"]
    /\ UNCHANGED strict

\* a handler that is suspended between the receive and the dispatch: the
\* message is taken in one step, dispatched and answered in a later one
RecvSuspendsBeforeDispatch(s, m) ==
    /\ pc[s] = "recv"
    /\ IF owed[s] = 0
       THEN /\ owed' = [owed EXCEPT ![s] = @ + 1]
            /\ message' = [message EXCEPT ![s] = m]
            /\ UNCHANGED <<pc, model, response, branch, unacked, cleanups,
                           outcome>>
       ELSE /\ m = message[s]
            /\ LET d == Dispatch(model[s], m, strict) IN
                /\ unacked' = [unacked EXCEPT ![s] = @ + d.fitted]
                /\ IF d.fault
                   THEN /\ EndHandler(s, "fault")
                   ELSE /\ pc' = [pc EXCEPT ![s] = IF d.branch = "exit" THEN "bye" ELSE "send"]
                        /\ branch' = [branch EXCEPT ![s] = d.branch]
                        /\ response' = [response EXCEPT ![s] = d.response]
                        /\ model' = SetModel(s, d.model)
                        /\ UNCHANGED <<message, outcome, cleanups>>
            /\ UNCHANGED owed
    /\ UNCHANGED strict

\* a loop that catches the ValueError of predict or train, answers with the
\* echo and goes on
RecvFaultCaught(s, m) ==
    /\ pc[s] = "recv"
    /\ owed' = [owed EXCEPT ![s] = @ + 1]
    /\ LET d == Dispatch(model[s], m, strict) IN
        /\ unacked' = [unacked EXCEPT ![s] = @ + d.fitted]
        /\ pc' = [pc EXCEPT ![s] = IF d.branch = "exit" THEN "bye" ELSE "send"]
        /\ message' = [message EXCEPT ![s] = m]
        /\ branch' = [branch EXCEPT ![s] = IF d.fault THEN "echo" ELSE d.branch]
        /\ response' = [response EXCEPT ![s] = IF d.fault THEN EchoResponse(m)
                                                ELSE d.response]
        /\ model' = SetModel(s, d.model)
        /\ UNCHANGED <<outcome, cleanups>>
    /\ UNCHANGED strict

\* websocket.recv() returns m: lines 55-69, up to the `await websocket.send`
\* of line 60 or line 72, or to the end of the handler when predict or train
\* raises (no except clause matches a ValueError; the finally block runs).
Recv(s, m) ==
    /\ pc[s] = "recv"
    /\ owed' = [owed EXCEPT ![s] = @ + 1]
    /\ LET d == Dispatch(model[s], m, strict) IN
        /\ unacked' = [unacked EXCEPT ![s] = @ + d.fitted]
        /\ IF d.fault
           THEN /\ EndHandler(s, "fault")
           ELSE /\ pc' = [pc EXCEPT ![s] = IF d.branch = "exit" THEN "bye" ELSE "send"]
                /\ message' = [message EXCEPT ![s] = m]
                /\ branch' = [branch EXCEPT ![s] = d.branch]
                /\ response' = [response EXCEPT ![s] = d.response]
                /\ model' = SetModel(s, d.model)
                /\ UNCHANGED <<outcome, cleanups>>
    /\ UNCHANGED strict

\* a send that is made twice before the loop goes on
SendTwice(s) ==
    /\ pc[s] = "send"
    /\ owed' = [owed EXCEPT ![s] = @ - 1]
    /\ unacked' = [unacked EXCEPT ![s] = IF branch[s] = "train" /\ @ > 0 THEN @ - 1 ELSE @]
    /\ pc' = [pc EXCEPT ![s] = IF owed[s] > 0 THEN "send" ELSE "recv"]
    /\ UNCHANGED <<strict, model, message, response, branch, cleanups, outcome>>

\* `await websocket.send(response)` of line 72 completes: line 73, and the
\* loop is back in `await websocket.recv()`.
SendDone(s) ==
    /\ pc[s] = "send"
    /\ owed' = [owed EXCEPT ![s] = @ - 1]
    /\ unacked' = [unacked EXCEPT ![s] = IF branch[s] = "train" THEN @ - 1 ELSE @]
    /\ pc' = [pc EXCEPT ![s] = "recv"]
    /\ UNCHANGED <<strict, model, message, response, branch, cleanups, outcome>>

\* `await websocket.send("Goodbye!")` of line 60 completes: break, finally,
\* return.
SendBye(s) ==
    /\ pc[s] = "bye"
    /\ owed' = [owed EXCEPT ![s] = @ - 1]
    /\ EndHandler(s, "exit")
    /\ UNCHANGED <<strict, unacked>>

\* a handler whose except clause does not match ConnectionClosed
ConnectionClosedUncaught(s) ==
    /\ pc[s] \in {"recv", "send", "bye"}
    /\ EndHandler(s, "fault")
    /\ UNCHANGED <<strict, owed, unacked>>

\* The peer disconnects without sending "exit" and the recv or send the
\* handler is suspended in raises ConnectionClosed: the except clause of
\* lines 75-76, then the finally block, then a normal return.
ConnectionClosed(s) ==
    /\ pc[s] \in {"recv", "send", "bye"}
    /\ EndHandler(s, "transport")
    /\ UNCHANGED <<strict, owed, unacked>>

(***************************************************************************)
(* Spec: the server with NumSessions concurrent connections whose clients   *)
(* send CoreMessages.  SpecSolo: one connection at a time, whose client     *)
(* sends any of Messages.                                                   *)
(***************************************************************************)
Next ==
    \/ \E s \in Sessions : Accept(s)
    \/ \E s \in Sessions, m \in CoreMessages : Recv(s, m)
    \/ \E s \in Sessions : SendDone(s)
    \/ \E s \in Sessions : SendBye(s)
    \/ \E s \in Sessions : ConnectionClosed(s)

Spec == Init /\ [][Next]_vars

NextSolo ==
    \/ Accept(1)
    \/ \E m \in Messages : Recv(1, m)
    \/ SendDone(1)
    \/ SendBye(1)
    \/ ConnectionClosed(1)

SpecSolo == Init /\ [][NextSolo]_vars

(***************************************************************************)
(* Vocabulary of the properties, stated on the text of the messages and     *)
(* independently of the operators above.                                    *)
(***************************************************************************)
\* m is "exit" in some letter casing
SaysExit(m) ==
    /\ Len(m) = 4
    /\ m[1] \in {"e", "E"}
    /\ m[2] \in {"x", "X"}
    /\ m[3] \in {"i", "I"}
    /\ m[4] \in {"t", "T"}

\* text occurs in m at position i
OccursAt(text, m, i) ==
    /\ i + Len(text) - 1 <= Len(m)
    /\ \A k \in 1..Len(text) : m[i + k - 1] = text[k]

\* m has the substring "predict:" / "train:"
MentionsPredict(m) ==
    \E i \in 1..Len(m) : OccursAt(<<"p", "r", "e", "d", "i", "c", "t", ":">>, m, i)
MentionsTrain(m) ==
    \E i \in 1..Len(m) : OccursAt(<<"t", "r", "a", "i", "n", ":">>, m, i)

\* the first position of text in m
FirstAt(text, m) ==
    CHOOSE i \in 1..Len(m) :
        /\ OccursAt(text, m, i)
        /\ \A j \in 1..(i - 1) : ~OccursAt(text, m, j)

\* m from its tag on: from "predict:" when m has it, else from "train:"
FromTag(m) ==
    IF MentionsPredict(m)
    THEN SubSeq(m, FirstAt(<<"p", "r", "e", "d", "i", "c", "t", ":">>, m), Len(m))
    ELSE SubSeq(m, FirstAt(<<"t", "r", "a", "i", "n", ":">>, m), Len(m))

\* m is neither tagged nor an exit
Untagged(m) == ~SaysExit(m) /\ ~MentionsPredict(m) /\ ~MentionsTrain(m)

\* "Processed message: '<m>'"
EchoOf(m) ==
    <<"P", "r", "o", "c", "e", "s", "s", "e", "d", " ", "m", "e", "s", "s",
      "a", "g", "e", ":", " ", "'">> \o m \o <<"'">>

\* t is k comma-separated numbers (digits only), k >= 1
IsNumbers(t, k) ==
    /\ Len(t) > 0
    /\ \A i \in 1..Len(t) :
          t[i] \in {"0", "1", "2", "3", "4", "5", "6", "7", "8", "9", ","}
    /\ t[1] # "," /\ t[Len(t)] # ","
    /\ \A i \in 1..(Len(t) - 1) : ~(t[i] = "," /\ t[i + 1] = ",")
    /\ Cardinality({i \in 1..Len(t) : t[i] = ","}) = k - 1

\* m is "predict:" followed by k numbers / "train:" followed by k numbers
PredictOf(m, k) ==
    /\ OccursAt(<<"p", "r", "e", "d", "i", "c", "t", ":">>, m, 1)
    /\ IsNumbers(SubSeq(m, 9, Len(m)), k)
TrainOf(m, k) ==
    /\ OccursAt(<<"t", "r", "a", "i", "n", ":">>, m, 1)
    /\ IsNumbers(SubSeq(m, 7, Len(m)), k)

\* the well-formed requests of the protocol
WellFormed(m) ==
    SaysExit(m) \/ PredictOf(m, 7) \/ TrainOf(m, 9) \/ Untagged(m)

\* the field counts a payload of numbers may have in the model
Counts == 1..12

\* everything the model keeps about slot s
SlotState(s) ==
    <<pc[s], model[s], message[s], response[s], branch[s], owed[s],
      unacked[s], cleanups[s], outcome[s]>>

\* slot s keeps the connection it has: no new connection takes the slot
SameConnection(s) == ~(pc[s] \in {"idle", "closed"} /\ pc'[s] = "recv")

(***************************************************************************)
(* C1.  A message equal to "exit" in any letter casing, whatever came       *)
(* before it on the connection, makes the handler hand exactly "Goodbye!"   *)
(* to send and nothing else; once that send is pending the only thing the   *)
(* session can do is close; and a closed session neither receives nor       *)
(* sends anything more on that connection (its owed count never moves       *)
(* again), so a delivered "Goodbye!" is the last message it sent.           *)
(***************************************************************************)
C1_ExitSendsGoodbyeAndCloses ==
    [][\A s \in Sessions :
        /\ \A m \in Messages :
              (SaysExit(m) /\ Recv(s, m)) =>
                  /\ pc'[s] = "bye"
                  /\ response'[s] = GOODBYE
                  /\ outcome'[s] = "none"
        /\ (pc[s] = "bye" /\ pc'[s] # "bye") =>
              /\ pc'[s] = "closed"
              /\ outcome'[s] \in {"exit", "transport"}
              /\ response[s] = GOODBYE
              /\ (outcome'[s] = "exit" => owed[s] = 1 /\ owed'[s] = 0)
        /\ (pc[s] = "bye" /\ pc'[s] = "bye") =>
              response'[s] = GOODBYE /\ owed'[s] = owed[s]
        /\ (pc[s] = "closed" /\ SameConnection(s)) =>
              /\ pc'[s] = "closed"
              /\ owed'[s] = owed[s]
              /\ outcome'[s] = outcome[s]
              /\ response'[s] = response[s]
              /\ message'[s] = message[s]
      ]_vars

\* a session closed by an "exit" whose "Goodbye!" was delivered
C1_Witness ==
    \E s \in Sessions : pc[s] = "closed" /\ outcome[s] = "exit" /\ owed[s] = 0

(***************************************************************************)
(* C2.  A message that contains neither "predict:" nor "train:" and is not  *)
(* "exit" in any casing is answered with exactly                            *)
(* "Processed message: '<message>'", the message text unchanged; the model  *)
(* is not touched, and when the send completes the session is back          *)
(* awaiting the next message (it leaves the send otherwise only because the *)
(* peer is gone).                                                           *)
(***************************************************************************)
C2_UntaggedIsEchoedVerbatim ==
    [][\A s \in Sessions :
        /\ \A m \in Messages :
              (Untagged(m) /\ Recv(s, m)) =>
                  /\ pc'[s] = "send"
                  /\ response'[s] = EchoOf(m)
                  /\ model'[s] = model[s]
                  /\ outcome'[s] = "none"
                  /\ owed'[s] = 1
        /\ (pc[s] = "send" /\ pc'[s] # "send") =>
              \/ /\ pc'[s] = "recv"
                 /\ owed'[s] = 0
                 /\ response'[s] = response[s]
                 /\ outcome'[s] = "none"
              \/ pc'[s] = "closed" /\ outcome'[s] = "transport"
      ]_vars

\* the echo of a message with special characters was sent and the session
\* awaits the next message
C2_Witness ==
    \E s \in Sessions :
        /\ pc[s] = "recv"
        /\ owed[s] = 0
        /\ message[s] = <<"a", "'", "!", ",", " ", "T">>
        /\ response[s] = <<"P", "r", "o", "c", "e", "s", "s", "e", "d", " ",
                           "m", "e", "s", "s", "a", "g", "e", ":", " ", "'",
                           "a", "'", "!", ",", " ", "T", "'">>

(***************************************************************************)
(* C3.  A message that contains the predict tag or the train tag anywhere   *)
(* is decoded from the text that follows the tag: the handler treats it     *)
(* exactly as it treats the message that starts at the tag (same fault or   *)
(* same response, same model afterwards).                                   *)
(***************************************************************************)
C3_TagAnywhereDecodesTextAfterTag ==
    [][\A s \in Sessions : \A m \in Messages :
          ((MentionsPredict(m) \/ MentionsTrain(m)) /\ ~SaysExit(m) /\ Recv(s, m)) =>
              LET d == Dispatch(model[s], FromTag(m), strict) IN
              IF d.fault
              THEN pc'[s] = "closed" /\ outcome'[s] = "fault"
              ELSE /\ pc'[s] = "send"
                   /\ response'[s] = d.response
                   /\ model'[s] = d.model
      ]_vars

(***************************************************************************)
(* C4.  While the connection stays open every well-formed request (exit,    *)
(* predict with 7 numbers, train with 9 numbers, an untagged message) gets  *)
(* exactly one response: receiving it never ends in a fault but leaves      *)
(* exactly one non-empty response pending; the session owes no response     *)
(* while it awaits a message, owes exactly one while a send is pending,     *)
(* and never owes a negative number (no second response for a request).     *)
(***************************************************************************)
C4_OwedInv ==
    \A s \in Sessions :
        /\ owed[s] \in {0, 1}
        /\ pc[s] \in {"idle", "recv"} => owed[s] = 0
        /\ pc[s] \in {"send", "bye"} => owed[s] = 1 /\ response[s] # <<>>
        /\ (pc[s] = "closed" /\ outcome[s] = "exit") => owed[s] = 0

C4_OneResponsePerRequest ==
    /\ []C4_OwedInv
    /\ [][\A s \in Sessions :
            /\ \A m \in Messages :
                  (WellFormed(m) /\ Recv(s, m)) =>
                      /\ pc'[s] \in {"send", "bye"}
                      /\ outcome'[s] = "none"
                      /\ owed[s] = 0 /\ owed'[s] = 1
                      /\ response'[s] # <<>>
            /\ (owed'[s] < owed[s] /\ SameConnection(s)) =>
                  /\ pc[s] \in {"send", "bye"}
                  /\ owed'[s] = owed[s] - 1
                  /\ pc'[s] = IF pc[s] = "send" THEN "recv" ELSE "closed"
         ]_vars

\* a well-formed predict request was answered and the session awaits the next
C4_Witness ==
    \E s \in Sessions :
        /\ pc[s] = "recv"
        /\ owed[s] = 0
        /\ PredictOf(message[s], 7)
        /\ response[s] # <<>>

(***************************************************************************)
(* C5.  A payload whose number of comma-separated numbers is not the        *)
(* expected one is rejected: a predict request with fewer or more than 7    *)
(* numbers and a train request with fewer or more than 9 numbers end in a   *)
(* decoding fault, with no response handed to send and no training step.    *)
(***************************************************************************)
C5_WrongCountIsRejected ==
    [][\A s \in Sessions : \A m \in Messages :
          (/\ \E k \in Counts : (k # 7 /\ PredictOf(m, k)) \/ (k # 9 /\ TrainOf(m, k))
           /\ Recv(s, m)) =>
              /\ pc'[s] = "closed"
              /\ outcome'[s] = "fault"
              /\ unacked'[s] = unacked[s]
      ]_vars

(***************************************************************************)
(* C6, as claimed.  Whenever a session is not in the middle of answering    *)
(* (it awaits a message or has ended), the training steps applied to its    *)
(* model are as many as the "Train done" it sent.                           *)
(***************************************************************************)
C6_StepsEqualAcksAtRest ==
    \A s \in Sessions : pc[s] \in {"idle", "recv", "closed"} => unacked[s] = 0

(***************************************************************************)
(* C6, amended.  A train request with 9 numbers applies exactly one         *)
(* training step and hands "Train done" to send, after the step; a fresh    *)
(* model starts with no step.  The steps applied equal the "Train done"     *)
(* sent whenever the session awaits a message or ended by exit or by a      *)
(* fault; they exceed them by exactly one while the "Train done" of the     *)
(* last step is being sent, and for good when the peer disconnected before  *)
(* that send completed.                                                     *)
(***************************************************************************)
C6_UnackedInv ==
    \A s \in Sessions :
        /\ unacked[s] \in {0, 1}
        /\ pc[s] \in {"idle", "recv", "bye"} => unacked[s] = 0
        /\ pc[s] = "send" =>
              /\ unacked[s] = (IF branch[s] = "train" THEN 1 ELSE 0)
              /\ branch[s] = "train" <=> response[s] = <<"T", "r", "a", "i", "n", " ", "d", "o", "n", "e">>
        /\ (pc[s] = "closed" /\ outcome[s] # "transport") => unacked[s] = 0

C6_OneStepPerTrainRequest ==
    /\ []C6_UnackedInv
    /\ [][\A s \in Sessions :
            /\ \A m \in Messages :
                  (TrainOf(m, 9) /\ Recv(s, m)) =>
                      /\ unacked[s] = 0 /\ unacked'[s] = 1
                      /\ pc'[s] = "send"
                      /\ response'[s] = <<"T", "r", "a", "i", "n", " ", "d", "o", "n", "e">>
            /\ (pc[s] \in {"idle", "closed"} /\ pc'[s] = "recv") => unacked'[s] = 0
            /\ (unacked'[s] < unacked[s] /\ SameConnection(s)) =>
                  /\ pc[s] = "send" /\ pc'[s] = "recv"
                  /\ owed'[s] = owed[s] - 1
                  /\ response[s] = <<"T", "r", "a", "i", "n", " ", "d", "o", "n", "e">>
         ]_vars

\* a train request was applied and acknowledged
C6_Witness ==
    \E s \in Sessions :
        /\ pc[s] = "recv"
        /\ TrainOf(message[s], 9)
        /\ response[s] = <<"T", "r", "a", "i", "n", " ", "d", "o", "n", "e">>
        /\ owed[s] = 0
        /\ unacked[s] = 0

(***************************************************************************)
(* C7.  Sessions are isolated.  A connection gets a model of its own when   *)
(* it is opened; in every interleaving of the sessions, a step of one       *)
(* session (in particular a train request) changes nothing of any other     *)
(* session: not its model, not its pending or last response, not its        *)
(* position; and what a session answers to a message is determined by its   *)
(* own model and that message.                                              *)
(***************************************************************************)
C7_SameModelSameAnswer ==
    \A s, t \in Sessions :
        (/\ pc[s] = "send" /\ pc[t] = "send"
         /\ message[s] = message[t]
         /\ model[s] = model[t]) => response[s] = response[t]

C7_SessionsAreIsolated ==
    /\ []C7_SameModelSameAnswer
    /\ [][\A s \in Sessions :
            /\ (SlotState(s)' # SlotState(s)) =>
                  \A t \in Sessions \ {s} : SlotState(t)' = SlotState(t)
            /\ (pc[s] \in {"idle", "closed"} /\ pc'[s] = "recv") =>
                  model'[s] \in Weights /\ unacked'[s] = 0 /\ owed'[s] = 0
            /\ \A m \in CoreMessages :
                  (pc[s] = "recv" /\ pc'[s] = "send" /\ TrainOf(m, 9) /\ Recv(s, m)) =>
                      /\ model'[s] \in Weights
                      /\ \A t \in Sessions \ {s} :
                            model'[t] = model[t] /\ response'[t] = response[t]
         ]_vars

\* one session was trained and acknowledged while another session, open at
\* the same time, had a predict request answered
C7_Witness ==
    \E s, t \in Sessions :
        /\ s # t
        /\ pc[s] = "recv" /\ TrainOf(message[s], 9) /\ owed[s] = 0
        /\ pc[t] = "recv" /\ PredictOf(message[t], 7) /\ owed[t] = 0

(***************************************************************************)
(* C8.  Within a session only a train request changes the model: receiving  *)
(* an exit, a predict request or an untagged message leaves it as it was,   *)
(* and so does completing a send.  Hence the same predict request received  *)
(* again with no train request in between gets the same response.           *)
(***************************************************************************)
C8_OnlyTrainMutatesModel ==
    [][\A s \in Sessions :
        /\ (pc[s] \in {"recv", "send", "bye"} /\ pc'[s] # "closed"
            /\ model'[s] # model[s]) =>
              /\ pc[s] = "recv" /\ pc'[s] = "send"
              /\ MentionsTrain(message'[s]) /\ ~MentionsPredict(message'[s])
              /\ unacked'[s] = unacked[s] + 1
        /\ \A m \in Messages :
              ((SaysExit(m) \/ MentionsPredict(m) \/ Untagged(m))
               /\ Recv(s, m) /\ pc'[s] # "closed") => model'[s] = model[s]
        /\ (pc[s] = "recv" /\ owed[s] = 0 /\ PredictOf(message[s], 7)
            /\ Recv(s, message[s])) =>
              /\ pc'[s] = "send"
              /\ response'[s] = response[s]
      ]_vars

\* a predict request was answered and the session awaits the next message:
\* the state in which the same request is received again
C8_Witness ==
    \E s \in Sessions :
        /\ pc[s] = "recv"
        /\ owed[s] = 0
        /\ PredictOf(message[s], 7)
        /\ OccursAt(<<"p", "r", "e", "d", "i", "c", "t", ":">>, response[s], 1)
        /\ model[s] \in Weights

(***************************************************************************)
(* C9.  Within a connection requests are handled one at a time and in       *)
(* order: a message is received only while no response is owed, so the      *)
(* response to a request is sent before the next request is received; the   *)
(* pending response is the answer to the message received last; and the     *)
(* session alternates recv (awaiting a message) -> send (processing, the    *)
(* response pending) -> recv, until it closes.                              *)
(***************************************************************************)
C9_AnswerOfLastMessage ==
    \A s \in Sessions :
        /\ owed[s] \in {0, 1}
        /\ pc[s] \in {"send", "bye"} =>
              /\ owed[s] = 1
              /\ SaysExit(message[s]) =>
                    pc[s] = "bye" /\ response[s] = <<"G", "o", "o", "d", "b", "y", "e", "!">>
              /\ Untagged(message[s]) =>
                    pc[s] = "send" /\ response[s] = EchoOf(message[s])
              /\ (~SaysExit(message[s]) /\ MentionsPredict(message[s])) =>
                    /\ pc[s] = "send"
                    /\ OccursAt(<<"p", "r", "e", "d", "i", "c", "t", ":">>, response[s], 1)
              /\ (MentionsTrain(message[s]) /\ ~MentionsPredict(message[s])) =>
                    /\ pc[s] = "send"
                    /\ response[s] = <<"T", "r", "a", "i", "n", " ", "d", "o", "n", "e">>

C9_InOrderNoPipelining ==
    /\ []C9_AnswerOfLastMessage
    /\ [][\A s \in Sessions :
            /\ (owed'[s] > owed[s]) => (pc[s] = "recv" /\ owed[s] = 0)
            /\ (pc[s] = "recv" /\ pc'[s] # "recv") =>
                  /\ pc'[s] \in {"send", "bye", "closed"}
                  /\ pc'[s] \in {"send", "bye"} => owed'[s] = 1
            /\ (pc[s] = "send" /\ pc'[s] # "send") =>
                  /\ pc'[s] \in {"recv", "closed"}
                  /\ pc'[s] = "recv" =>
                        /\ owed'[s] = 0
                        /\ message'[s] = message[s]
                        /\ response'[s] = response[s]
            /\ (pc[s] = "send" /\ pc'[s] = "send") =>
                  /\ owed'[s] = owed[s]
                  /\ message'[s] = message[s]
                  /\ response'[s] = response[s]
            /\ (pc[s] = "bye" /\ pc'[s] # "bye") => pc'[s] = "closed"
         ]_vars

\* a request was answered and the session awaits the next one
C9_Witness ==
    \E s \in Sessions :
        /\ pc[s] = "recv"
        /\ owed[s] = 0
        /\ message[s] # <<>>
        /\ response[s] = EchoOf(message[s])

(***************************************************************************)
(* C10.  When the peer disconnects without sending "exit", the              *)
(* ConnectionClosed raised by the pending recv or send is caught in the     *)
(* handler: the session closes with the finally block run once and the      *)
(* handler returns normally (no exception leaves it); no other session is   *)
(* touched (an open session stays where it was, its model and its pending  *)
(* response intact); and the server goes on: a free slot can always be      *)
(* taken by a new connection and a pending send can always complete.        *)
(***************************************************************************)
C10_ServerGoesOn ==
    \A t \in Sessions :
        /\ pc[t] \in {"idle", "closed"} => ENABLED Accept(t)
        /\ pc[t] = "send" => ENABLED SendDone(t)
        /\ pc[t] = "bye" => ENABLED SendBye(t)
        /\ pc[t] = "closed" => cleanups[t] = 1 /\ outcome[t] # "none"
        /\ pc[t] # "closed" => cleanups[t] = 0 /\ outcome[t] = "none"

C10_TransportCloseIsCaught ==
    /\ []C10_ServerGoesOn
    /\ [][\A s \in Sessions :
            \* a running session closes without having received or sent
            (pc[s] \in {"recv", "send", "bye"} /\ pc'[s] = "closed"
             /\ owed'[s] = owed[s]) =>
                /\ outcome'[s] = "transport"
                /\ cleanups'[s] = cleanups[s] + 1
                /\ \A t \in Sessions \ {s} : SlotState(t)' = SlotState(t)
         ]_vars

\* a session ended by a transport close while another session is open
C10_Witness ==
    \E s, t \in Sessions :
        /\ pc[s] = "closed" /\ outcome[s] = "transport" /\ cleanups[s] = 1
        /\ pc[t] \in {"recv", "send"}

(***************************************************************************)
(* C11.  A predict request with 7 numbers, received on a fresh model or     *)
(* after any training steps (in every state in which the session awaits a   *)
(* message), never faults and is answered with "predict:" followed by       *)
(* exactly 2 comma-separated numbers; the response stays that text until    *)
(* its send completes.                                                      *)
(***************************************************************************)
C11_PredictAnswerShape ==
    \A s \in Sessions :
        (pc[s] = "send" /\ PredictOf(message[s], 7)) =>
            /\ OccursAt(<<"p", "r", "e", "d", "i", "c", "t", ":">>, response[s], 1)
            /\ IsNumbers(SubSeq(response[s], 9, Len(response[s])), 2)

C11_PredictGivesTwoValues ==
    /\ []C11_PredictAnswerShape
    /\ [][\A s \in Sessions : \A m \in Messages :
            (PredictOf(m, 7) /\ Recv(s, m)) =>
                /\ pc'[s] = "send"
                /\ outcome'[s] = "none"
                /\ message'[s] = m
                /\ Len(response'[s]) >= 11
                /\ SubSeq(response'[s], 1, 8) = <<"p", "r", "e", "d", "i", "c", "t", ":">>
                /\ IsNumbers(SubSeq(response'[s], 9, Len(response'[s])), 2)
         ]_vars

\* the answer to a 7-number predict request is pending, on a model that a
\* train request of this connection has moved or on a fresh one
C11_Witness ==
    \E s \in Sessions :
        /\ pc[s] = "send"
        /\ owed[s] = 1
        /\ PredictOf(message[s], 7)
        /\ branch[s] = "predict"
        /\ IsNumbers(SubSeq(response[s], 9, Len(response[s])), 2)

(***************************************************************************)
(* C12.  A fault raised by predict or train for a tagged message is not     *)
(* caught by the loop.  Receiving a tagged message either leaves a          *)
(* response pending or ends the session at once with the fault: no          *)
(* response is handed to send for that message (the session owes it for     *)
(* good), no training step is applied, and the connection processes         *)
(* nothing more.  A predict payload without 7 numbers and a train payload   *)
(* with fewer than 9 always fault; a payload with text that is not a        *)
(* number behind 7 numbers faults when np.fromstring raises on it.          *)
(***************************************************************************)
C12_FaultedSessionInv ==
    \A s \in Sessions :
        (pc[s] = "closed" /\ outcome[s] = "fault") =>
            /\ owed[s] = 1
            /\ response[s] = <<>>
            /\ unacked[s] = 0

C12_FaultIsNotCaught ==
    /\ []C12_FaultedSessionInv
    /\ [][\A s \in Sessions :
            /\ \A m \in Messages :
                  ((MentionsPredict(m) \/ MentionsTrain(m)) /\ ~SaysExit(m)
                   /\ Recv(s, m)) =>
                      \/ /\ pc'[s] = "send"
                         /\ outcome'[s] = "none"
                         /\ response'[s] # <<>>
                      \/ /\ pc'[s] = "closed"
                         /\ outcome'[s] = "fault"
                         /\ owed[s] = 0 /\ owed'[s] = 1
                         /\ response'[s] = <<>>
                         /\ unacked'[s] = unacked[s]
            /\ \A m \in Messages :
                  (/\ \E k \in Counts :
                         (k # 7 /\ PredictOf(m, k)) \/ (k < 9 /\ TrainOf(m, k))
                   /\ Recv(s, m)) =>
                      pc'[s] = "closed" /\ outcome'[s] = "fault"
            /\ \A m \in Messages :
                  (/\ Len(m) > 2
                   /\ PredictOf(SubSeq(m, 1, Len(m) - 2), 7)
                   /\ SubSeq(m, Len(m) - 1, Len(m)) = <<",", "x">>
                   /\ Recv(s, m)) =>
                      IF strict
                      THEN pc'[s] = "closed" /\ outcome'[s] = "fault"
                      ELSE pc'[s] = "send" /\ outcome'[s] = "none"
            /\ (pc[s] = "closed" /\ outcome[s] = "fault" /\ SameConnection(s)) =>
                  /\ pc'[s] = "closed"
                  /\ outcome'[s] = "fault"
                  /\ owed'[s] = owed[s]
                  /\ response'[s] = response[s]
                  /\ model'[s] = model[s]
         ]_vars

\* a session ended by a fault, the response to its last message never sent
C12_Witness ==
    \E s \in Sessions :
        /\ pc[s] = "closed"
        /\ outcome[s] = "fault"
        /\ owed[s] = 1
        /\ response[s] = <<>>

(***************************************************************************)
(* C13.  The cleanup (the finally block) runs exactly once per session, in  *)
(* the very step in which the loop is left, whichever way it is left:       *)
(* after the "Goodbye!" of an exit was sent, on a transport close, and on   *)
(* an uncaught fault.  A session has ended if and only if its cleanup has   *)
(* run; nothing is sent or received on the connection after the cleanup,    *)
(* and the cleanup never runs a second time.                                *)
(***************************************************************************)
C13_CleanupInv ==
    \A s \in Sessions :
        /\ cleanups[s] \in {0, 1}
        /\ outcome[s] \in {"none", "exit", "transport", "fault"}
        /\ (pc[s] = "closed") <=> (cleanups[s] = 1)
        /\ (pc[s] = "closed") <=> (outcome[s] # "none")

C13_CleanupExactlyOnce ==
    /\ []C13_CleanupInv
    /\ [][\A s \in Sessions :
            /\ (pc[s] \in {"recv", "send", "bye"} /\ pc'[s] = "closed") =>
                  /\ cleanups[s] = 0 /\ cleanups'[s] = 1
                  /\ outcome'[s] \in {"exit", "transport", "fault"}
                  /\ outcome'[s] = "exit" =>
                        /\ pc[s] = "bye"
                        /\ response[s] = <<"G", "o", "o", "d", "b", "y", "e", "!">>
                        /\ owed[s] = 1 /\ owed'[s] = 0
                  /\ outcome'[s] = "transport" => owed'[s] = owed[s]
                  /\ outcome'[s] = "fault" =>
                        pc[s] = "recv" /\ owed[s] = 0 /\ owed'[s] = 1
            /\ (cleanups'[s] # cleanups[s] /\ SameConnection(s)) =>
                  /\ pc[s] \in {"recv", "send", "bye"}
                  /\ pc'[s] = "closed"
                  /\ cleanups'[s] = cleanups[s] + 1
            /\ (pc[s] = "closed" /\ SameConnection(s)) =>
                  /\ pc'[s] = "closed"
                  /\ cleanups'[s] = cleanups[s]
                  /\ owed'[s] = owed[s]
                  /\ unacked'[s] = unacked[s]
         ]_vars

\* one session ended by an exit and another by an uncaught fault, the
\* cleanup of each run once
C13_Witness ==
    \E s, t \in Sessions :
        /\ pc[s] = "closed" /\ outcome[s] = "exit" /\ cleanups[s] = 1
        /\ pc[t] = "closed" /\ outcome[t] = "fault" /\ cleanups[t] = 1

(***************************************************************************)
(* C14.  Sessions interleave only where a handler awaits a receive or a     *)
(* send.  No session is ever observed between having received a message     *)
(* and having its response ready: a session that awaits a message owes      *)
(* nothing, and a session that owes a response has it ready, with the       *)
(* training step of a train request already applied.  The step that         *)
(* receives a message does the dispatch, the decoding and the model         *)
(* operation at once and takes the session straight to the send (or to its  *)
(* end on a fault), and no other session changes in that step, nor in any   *)
(* other step of the session.                                               *)
(***************************************************************************)
C14_NoSessionMidDispatch ==
    \A s \in Sessions :
        /\ pc[s] = "recv" => owed[s] = 0 /\ unacked[s] = 0
        /\ pc[s] \in {"send", "bye"} =>
              /\ owed[s] = 1
              /\ message[s] # <<>>
              /\ response[s] # <<>>
              /\ TrainOf(message[s], 9) => unacked[s] = 1
              /\ ~TrainOf(message[s], 9) => unacked[s] = 0

C14_DispatchIsOneStep ==
    /\ []C14_NoSessionMidDispatch
    /\ [][\A s \in Sessions :
            /\ (owed'[s] > owed[s]) =>
                  /\ pc[s] = "recv"
                  /\ pc'[s] \in {"send", "bye", "closed"}
                  /\ pc'[s] \in {"send", "bye"} =>
                        /\ message'[s] # <<>>
                        /\ response'[s] # <<>>
                        /\ TrainOf(message'[s], 9) =>
                              /\ unacked'[s] = unacked[s] + 1
                              /\ response'[s] = <<"T", "r", "a", "i", "n", " ", "d", "o", "n", "e">>
                        /\ PredictOf(message'[s], 7) =>
                              /\ model'[s] = model[s]
                              /\ IsNumbers(SubSeq(response'[s], 9, Len(response'[s])), 2)
                  /\ \A t \in Sessions \ {s} : SlotState(t)' = SlotState(t)
            /\ (pc'[s] # pc[s]) =>
                  \A t \in Sessions \ {s} :
                      /\ pc'[t] = pc[t]
                      /\ model'[t] = model[t]
                      /\ response'[t] = response[t]
                      /\ owed'[t] = owed[t]
         ]_vars

\* two sessions open at once, each suspended in the send of its response:
\* one has applied a training step, the other has computed a prediction
C14_Witness ==
    \E s, t \in Sessions :
        /\ s # t
        /\ pc[s] = "send" /\ TrainOf(message[s], 9) /\ unacked[s] = 1
        /\ pc[t] = "send" /\ PredictOf(message[t], 7) /\ owed[t] = 1

(***************************************************************************)
(* C15.  The dispatch picks exactly one branch per message, in the order    *)
(* exit, predict, train, echo.  A message that has both "predict:" and      *)
(* "train:" is handled as a predict request only: receiving it applies no   *)
(* training step, leaves the model as it was and is never answered with     *)
(* "Train done"; it is answered with a "predict:" response or ends in the   *)
(* fault of predict.  Every pending response is of the one form of its      *)
(* branch.                                                                  *)
(***************************************************************************)
C15_OneBranchInv ==
    \A s \in Sessions :
        pc[s] \in {"send", "bye"} =>
            LET isBye == response[s] = <<"G", "o", "o", "d", "b", "y", "e", "!">>
                isPredict == OccursAt(<<"p", "r", "e", "d", "i", "c", "t", ":">>, response[s], 1)
                isTrain == response[s] = <<"T", "r", "a", "i", "n", " ", "d", "o", "n", "e">>
                isEcho == response[s] = EchoOf(message[s])
            IN  /\ isBye <=> SaysExit(message[s])
                /\ isPredict <=> (~SaysExit(message[s]) /\ MentionsPredict(message[s]))
                /\ isTrain <=> (/\ ~SaysExit(message[s])
                                /\ ~MentionsPredict(message[s])
                                /\ MentionsTrain(message[s]))
                /\ isEcho <=> Untagged(message[s])
                /\ isTrain <=> (unacked[s] = 1)

C15_PredictBeforeTrain ==
    /\ []C15_OneBranchInv
    /\ [][\A s \in Sessions : \A m \in Messages :
            (MentionsPredict(m) /\ MentionsTrain(m) /\ Recv(s, m)) =>
                /\ unacked'[s] = unacked[s]
                /\ response'[s] # <<"T", "r", "a", "i", "n", " ", "d", "o", "n", "e">>
                /\ \/ /\ pc'[s] = "send"
                      /\ model'[s] = model[s]
                      /\ IsNumbers(SubSeq(response'[s], 9, Len(response'[s])), 2)
                      /\ SubSeq(response'[s], 1, 8) = <<"p", "r", "e", "d", "i", "c", "t", ":">>
                   \/ /\ pc'[s] = "closed"
                      /\ outcome'[s] = "fault"
         ]_vars

\* a message with both tags was handled as a predict request: its
\* "predict:" response is pending and no training step was applied
C15_Witness ==
    \E s \in Sessions :
        /\ pc[s] = "send"
        /\ MentionsPredict(message[s]) /\ MentionsTrain(message[s])
        /\ OccursAt(<<"p", "r", "e", "d", "i", "c", "t", ":">>, response[s], 1)
        /\ unacked[s] = 0

(***************************************************************************)
(* C16.  A session leaves the loop only in one of three ways: after a       *)
(* message that is "exit" in some letter casing, by a transport close (in   *)
(* which no message is handled), or by a fault raised for a tagged          *)
(* message.  An untagged message, a predict request with 7 numbers and a    *)
(* train request with 9 numbers leave a response pending, and when its      *)
(* send completes the session awaits the next message.  A message that      *)
(* only contains "exit" (" exit", "exit now") is not an exit: it is echoed, *)
(* the session stays open and "Goodbye!" is not sent.                       *)
(***************************************************************************)
C16_GoodbyeOnlyForExit ==
    \A s \in Sessions :
        /\ pc[s] = "bye" =>
              /\ SaysExit(message[s])
              /\ response[s] = <<"G", "o", "o", "d", "b", "y", "e", "!">>
        /\ pc[s] = "send" =>
              /\ ~SaysExit(message[s])
              /\ response[s] # <<"G", "o", "o", "d", "b", "y", "e", "!">>
        /\ (pc[s] = "closed") <=> (outcome[s] \in {"exit", "transport", "fault"})

C16_ThreeWaysOut ==
    /\ []C16_GoodbyeOnlyForExit
    /\ [][\A s \in Sessions :
            /\ (pc[s] \in {"recv", "send", "bye"} /\ pc'[s] = "closed") =>
                  \/ /\ outcome'[s] = "exit"
                     /\ pc[s] = "bye"
                     /\ SaysExit(message[s])
                     /\ owed'[s] = owed[s] - 1
                  \/ /\ outcome'[s] = "transport"
                     /\ owed'[s] = owed[s]
                  \/ /\ outcome'[s] = "fault"
                     /\ pc[s] = "recv"
                     /\ owed'[s] = owed[s] + 1
            /\ \A m \in Messages :
                  (Recv(s, m) /\ pc'[s] = "closed") =>
                      /\ MentionsPredict(m) \/ MentionsTrain(m)
                      /\ ~SaysExit(m)
                      /\ outcome'[s] = "fault"
            /\ \A m \in Messages :
                  ((Untagged(m) \/ PredictOf(m, 7) \/ TrainOf(m, 9))
                   /\ Recv(s, m)) =>
                      /\ pc'[s] = "send"
                      /\ outcome'[s] = "none"
                      /\ message'[s] = m
            /\ \A m \in Messages :
                  (/\ ~SaysExit(m)
                   /\ \E i \in 1..Len(m) : OccursAt(<<"e", "x", "i", "t">>, m, i)
                   /\ Recv(s, m)) =>
                      /\ pc'[s] = "send"
                      /\ outcome'[s] = "none"
                      /\ response'[s] = EchoOf(m)
            /\ (pc[s] = "send" /\ owed'[s] < owed[s]) =>
                  /\ pc'[s] = "recv"
                  /\ outcome'[s] = "none"
                  /\ model'[s] = model[s]
            /\ (pc[s] = "send" /\ pc'[s] = "closed") => outcome'[s] = "transport"
         ]_vars

\* a message that only contains "exit" was echoed and the session awaits
\* the next message
C16_Witness ==
    \E s \in Sessions :
        /\ pc[s] = "recv"
        /\ owed[s] = 0
        /\ outcome[s] = "none"
        /\ ~SaysExit(message[s])
        /\ \E i \in 1..Len(message[s]) :
              OccursAt(<<"e", "x", "i", "t">>, message[s], i)
        /\ response[s] = EchoOf(message[s])

====
